---- MODULE Spec2Model ----
(***************************************************************************)
(* SVNFS: a FUSE file system that exposes the revisions of a Subversion    *)
(* repository as /{revision}/{path}.  The model covers the path codec      *)
(* (svnfs_path_split), the four FUSE handlers (getattr, open, read,        *)
(* readdir), the reader/writer lock that guards the RA session, the hash   *)
(* of cached spool files and the spool files themselves.                   *)
(*                                                                         *)
(* Strings are tuples of one-character strings; a C string's terminating   *)
(* NUL is what CharAt yields past the end.                                 *)
(***************************************************************************)
EXTENDS Integers, Sequences, FiniteSets, TLC

\* ------------------------------------------------------------------------
\* Bounds of the model
\* ------------------------------------------------------------------------
NThreads == 2       \* FUSE worker threads
MaxCalls == 3       \* FUSE requests dispatched in one behaviour
MaxLen == 1         \* largest len passed to read
MaxOff == 2         \* largest offset passed to read
Youngest == 2       \* largest revision number of the repository
MaxPathLen == 4     \* longest path handed to svnfs_path_split on its own

\* errno values returned negated by the handlers
ENOENT == 2
EIO == 5
ENOMEM == 12
EBUSY == 16
EPIPE == 32

Threads == 1..NThreads
NUL == "NUL"
NoThread == 0
NoFile == 0

\* ------------------------------------------------------------------------
\* C strings
\* ------------------------------------------------------------------------
CharAt(s, i) == IF i >= 1 /\ i <= Len(s) THEN s[i] ELSE NUL

StrFrom(s, i) == IF i > Len(s) THEN <<>> ELSE SubSeq(s, i, Len(s))

IsSpace(c) == c = " "

IsDigit(c) == c \in {"0", "1", "2"}

DigitVal(c) == IF c = "0" THEN 0 ELSE IF c = "1" THEN 1 ELSE 2

RECURSIVE SkipSpace(_, _)
SkipSpace(s, i) == IF IsSpace(CharAt(s, i)) THEN SkipSpace(s, i + 1) ELSE i

RECURSIVE DigitsEnd(_, _)
DigitsEnd(s, i) == IF IsDigit(CharAt(s, i)) THEN DigitsEnd(s, i + 1) ELSE i

RECURSIVE DigitsValue(_, _, _)
DigitsValue(s, i, acc) ==
    IF IsDigit(CharAt(s, i))
    THEN DigitsValue(s, i + 1, 10 * acc + DigitVal(CharAt(s, i)))
    ELSE acc

\* strtol(nptr, endptr, 10) on the string that starts at index start: leading
\* white space, an optional sign, then digits.  With no digits the value is 0
\* and endptr is nptr.  (The paths of the model are too short to overflow a
\* long.)
strtol(s, start) ==
    LET i1 == SkipSpace(s, start)
        neg == CharAt(s, i1) = "-"
        i2 == IF CharAt(s, i1) \in {"+", "-"} THEN i1 + 1 ELSE i1
        i3 == DigitsEnd(s, i2)
        v == DigitsValue(s, i2, 0)
    IN  IF i3 = i2
        THEN [val |-> 0, end |-> start]
        ELSE [val |-> IF neg THEN 0 - v ELSE v, end |-> i3]

SplitFail == [ok |-> FALSE, rev |-> 0, repos_path |-> <<>>]

svnfs_path_split(path) ==
    IF CharAt(path, 1) # "/" THEN SplitFail
    ELSE IF CharAt(path, 2) = NUL THEN SplitFail
    ELSE LET r == strtol(path, 2) IN
         IF r.val = 0 /\ r.end = 2 THEN SplitFail
         ELSE IF r.val = 0 /\ CharAt(path, r.end) # "/" THEN SplitFail
         ELSE [ok |-> TRUE, rev |-> r.val,
               repos_path |-> IF CharAt(path, r.end) = NUL
                              THEN <<"/">> ELSE StrFrom(path, r.end)]

\* ------------------------------------------------------------------------
\* The repository behind the RA session (revisions are immutable)
\* ------------------------------------------------------------------------
RootPath == <<"/">>
PathA == <<"/", "a">>

\* What svn_ra_stat reports for repos_path@rev when the round trip works:
\* "norev" when the revision does not exist (an error), "absent" when the path
\* does not exist in the revision (no error, *dirent is NULL).
NodeKind(rev, rp) ==
    IF rev < 0 \/ rev > Youngest THEN "norev"
    ELSE IF rp = RootPath THEN "dir"
    ELSE IF rp = PathA /\ rev >= 1 THEN "file"
    ELSE "absent"

\* The bytes of the file repos_path@rev.
FileContent(rev, rp) ==
    IF NodeKind(rev, rp) # "file" THEN <<>>
    ELSE IF rev = 1 THEN <<"h">> ELSE <<"h", "i">>

\* The entry names of the directory repos_path@rev.
DirNames(rev, rp) ==
    IF NodeKind(rev, rp) = "dir" /\ rev >= 1 THEN {<<"a">>} ELSE {}

\* The virtual paths the host dispatches to the handlers.
VPaths ==
    { RootPath,
      <<"/", "1", "/", "a">>,
      <<"/", "2", "/", "a">>,
      <<"/", "1", "/", "x">>,
      <<"/", "2">>,
      <<"/", "x">> }

\* ------------------------------------------------------------------------
\* State
\* ------------------------------------------------------------------------
VARIABLES
    pc,          \* position of each worker thread in its handler
    call,        \* the request a thread serves: [name, path, len, off]
    ret,         \* value the thread's last handler returned
    out,         \* what the last handler handed back (stat, bytes, names)
    note,        \* branch the last handler took (the diagnostic it prints)
    rev,         \* the handler's local rev
    cache_path,  \* the local cache_path of open and read: a spool file
    lock,        \* svnfs_ra_session_lock: [readers, writer]
    cache,       \* svnfs_cache_files: path -> spool file, NoFile when unset
    files,       \* the spool files made by apr_file_mktemp, by number
    inserted,    \* did the thread's current call change svnfs_cache_files
    calls,       \* requests dispatched so far
    spIn,        \* argument of a stand-alone svnfs_path_split call
    spOut        \* its result

vars == <<pc, call, ret, out, note, rev, cache_path, lock, cache, files, inserted,
          calls, spIn, spOut>>

NoCall == [name |-> "none", path |-> <<>>, len |-> 0, off |-> 0]

Init ==
    /\ pc = [t \in Threads |-> "idle"]
    /\ call = [t \in Threads |-> NoCall]
    /\ ret = [t \in Threads |-> 0]
    /\ out = [t \in Threads |-> <<>>]
    /\ note = [t \in Threads |-> "none"]
    /\ rev = [t \in Threads |-> 0]
    /\ cache_path = [t \in Threads |-> NoFile]
    /\ lock = [readers |-> {}, writer |-> NoThread]
    /\ cache = [p \in VPaths |-> NoFile]
    /\ files = <<>>
    /\ inserted = [t \in Threads |-> FALSE]
    /\ calls = 0
    /\ spIn = <<>>
    /\ spOut = SplitFail

\* A null-pointer dereference has ended the process.
Crashed == \E t \in Threads : pc[t] = "crash"

\* ------------------------------------------------------------------------
\* svnfs_ra_session_lock (apr_thread_rwlock_t)
\* ------------------------------------------------------------------------
CanLockRead == lock.writer = NoThread

\* The mutant of CanLockWrite that grants the exclusive mode past the holders
\* of the shared mode.
CanLockWrite_pastreaders == lock.writer = NoThread

CanLockWrite == lock.writer = NoThread /\ lock.readers = {}

\* apr_thread_rwlock_unlock by a holder: the mode the thread holds is given up.
\* (SVNFS_UNLOCK returns EBUSY when the unlock fails; a thread that holds the
\* lock cannot make it fail, and the handlers unlock only what they hold.)
Unlocked(t) ==
    [readers |-> lock.readers \ {t},
     writer |-> IF lock.writer = t THEN NoThread ELSE lock.writer]

Holds(t) == t \in lock.readers \/ lock.writer = t

\* A thread is inside a call on svnfs_ra_session.
InBackend(t) == pc[t] \in {"ga_stat", "op_get_file", "ls_latest", "ls_get_dir"}

\* A handler returns: the thread is idle again.
Return(t, r, o, n) ==
    /\ pc' = [pc EXCEPT ![t] = "idle"]
    /\ ret' = [ret EXCEPT ![t] = r]
    /\ out' = [out EXCEPT ![t] = o]
    /\ note' = [note EXCEPT ![t] = n]

\* The host dispatches a request to an idle worker.
Dispatch(t, name, p, len, off) ==
    /\ pc[t] = "idle"
    /\ calls < MaxCalls
    /\ calls' = calls + 1
    /\ call' = [call EXCEPT ![t] = [name |-> name, path |-> p, len |-> len, off |-> off]]
    /\ inserted' = [inserted EXCEPT ![t] = FALSE]
    /\ cache_path' = [cache_path EXCEPT ![t] = NoFile]
    /\ rev' = [rev EXCEPT ![t] = IF name = "read" \/ p = RootPath
                                 THEN 0 ELSE svnfs_path_split(p).rev]

\* The thread moves on inside its handler.
Goto(t, where, n) ==
    /\ pc' = [pc EXCEPT ![t] = where]
    /\ note' = [note EXCEPT ![t] = n]
    /\ UNCHANGED <<ret, out>>

\* The handler has just been entered: nothing returned or printed yet.
Enter(t, where) ==
    /\ pc' = [pc EXCEPT ![t] = where]
    /\ ret' = [ret EXCEPT ![t] = 0]
    /\ out' = [out EXCEPT ![t] = <<>>]
    /\ note' = [note EXCEPT ![t] = "none"]

Rev(t) == rev[t]

ReposPath(t) == svnfs_path_split(call[t].path).repos_path

\* ------------------------------------------------------------------------
\* svnfs_fuse_getattr
\* ------------------------------------------------------------------------
\* Entry: the root is answered at once, a path that does not split is ENOENT.
BeginGetattr(t, p) ==
    /\ Dispatch(t, "getattr", p, 0, 0)
    /\ IF p = RootPath
       THEN Return(t, 0, <<"S_IFDIR|0755", 0>>, "root")
       ELSE IF ~svnfs_path_split(p).ok
       THEN Return(t, 0 - ENOENT, <<>>, "malformed")
       ELSE Enter(t, "ga_rdlock")
    /\ UNCHANGED <<lock, cache, files, spIn, spOut>>

\* SVNFS_LOCK_READ granted: svn_ra_stat is called.
GetattrLockRead(t) ==
    /\ pc[t] = "ga_rdlock"
    /\ CanLockRead
    /\ lock' = [lock EXCEPT !.readers = @ \cup {t}]
    /\ Goto(t, "ga_stat", "none")
    /\ UNCHANGED <<call, rev, cache_path, cache, files, inserted, calls, spIn, spOut>>

\* SVNFS_LOCK_READ: apr_thread_rwlock_rdlock reports an error.
GetattrLockFail(t) ==
    /\ pc[t] = "ga_rdlock"
    /\ Return(t, 0 - EBUSY, <<>>, "lock_fail")
    /\ UNCHANGED <<call, rev, cache_path, lock, cache, files, inserted, calls, spIn, spOut>>

\* svn_ra_stat returns: an error (transport, or no such revision), or a
\* dirent, which is NULL when the path is absent at that revision.
GetattrStatReturn(t, transport_ok) ==
    /\ pc[t] = "ga_stat"
    /\ LET kind == NodeKind(Rev(t), ReposPath(t)) IN
       Goto(t, "ga_unlock",
            IF ~transport_ok \/ kind = "norev" THEN "stat_err" ELSE kind)
    /\ UNCHANGED <<call, rev, cache_path, lock, cache, files, inserted, calls, spIn, spOut>>

\* st_size and st_mode from dirent->size and dirent->kind.
StatOf(kind, size) ==
    IF kind = "file" THEN <<"S_IFREG|0644", size>>
    ELSE IF kind = "dir" THEN <<"S_IFDIR|0755", size>>
    ELSE <<"S_IFREG|0000", size>>

\* What reading dirent->size and dirent->kind through a NULL dirent can do.
NullDirentOutcomes == {"crash", "junk"}

\* The mutant of GetattrFinish that forgets SVNFS_UNLOCK when svn_ra_stat
\* failed.
GetattrFinish_keeplock(t, undefined) ==
    /\ pc[t] = "ga_unlock"
    /\ lock' = IF note[t] = "stat_err" THEN lock ELSE Unlocked(t)
    /\ IF note[t] = "stat_err"
       THEN Return(t, 0 - EPIPE, <<>>, "stat_err")
       ELSE IF note[t] = "absent"
       THEN IF undefined = "crash"
            THEN Goto(t, "crash", "absent")
            ELSE Return(t, 0, <<"junk", 0>>, "absent")
       ELSE Return(t, 0, StatOf(note[t], Len(FileContent(Rev(t), ReposPath(t)))), note[t])
    /\ UNCHANGED <<call, rev, cache_path, cache, files, inserted, calls, spIn, spOut>>

\* SVNFS_UNLOCK, then the error check and the conversion of the dirent.  A
\* NULL dirent is dereferenced.
GetattrFinish(t, undefined) ==
    /\ pc[t] = "ga_unlock"
    /\ lock' = Unlocked(t)
    /\ IF note[t] = "stat_err"
       THEN Return(t, 0 - EPIPE, <<>>, "stat_err")
       ELSE IF note[t] = "absent"
       THEN IF undefined = "crash"
            THEN Goto(t, "crash", "absent")
            ELSE Return(t, 0, <<"junk", 0>>, "absent")
       ELSE Return(t, 0, StatOf(note[t], Len(FileContent(Rev(t), ReposPath(t)))), note[t])
    /\ UNCHANGED <<call, rev, cache_path, cache, files, inserted, calls, spIn, spOut>>

\* ------------------------------------------------------------------------
\* svnfs_cache_files and the spool files
\* ------------------------------------------------------------------------
\* What apr_hash_get(svnfs_cache_files, p) can yield for thread t.  The hash is
\* read without any lock, so a lookup that runs while another thread is inside
\* apr_hash_set for the same key sees the hash before or after that insert.
\* Keys are compared as strings (APR_HASH_KEY_STRING); the hash keeps the
\* pointer to the path it was given, whose storage belongs to the host.
LookupResults(t, p) ==
    {cache[p]} \cup
    { cache_path[u] : u \in { w \in Threads \ {t} :
                               pc[w] = "op_hash_set" /\ call[w].path = p } }

NewFile(p) == [key |-> p, bytes |-> <<>>, closed |-> FALSE]

Min(a, b) == IF a < b THEN a ELSE b

\* The mutant of ReadAt that leaves out the seek.
ReadAt_noseek(bytes, off, len) ==
    IF len = 0 THEN <<>> ELSE SubSeq(bytes, 1, Min(len, Len(bytes)))

\* apr_file_seek to off, then apr_file_read_full of len bytes: the bytes from
\* off up to len of them or the end of the file.
ReadAt(bytes, off, len) ==
    IF off >= Len(bytes) THEN <<>>
    ELSE SubSeq(bytes, off + 1, Min(off + len, Len(bytes)))

\* ------------------------------------------------------------------------
\* svnfs_fuse_open
\* ------------------------------------------------------------------------
BeginOpen(t, p) ==
    /\ Dispatch(t, "open", p, 0, 0)
    /\ IF ~svnfs_path_split(p).ok
       THEN Return(t, 0 - ENOENT, <<>>, "malformed")
       ELSE Enter(t, "op_lookup")
    /\ UNCHANGED <<lock, cache, files, spIn, spOut>>

\* The mutant of OpenLookup that populates whatever the lookup found.
OpenLookup_alwaysfetch(t, found, tmp_ok) ==
    /\ pc[t] = "op_lookup"
    /\ found \in LookupResults(t, call[t].path)
    /\ cache_path' = [cache_path EXCEPT ![t] = found]
    /\ IF ~tmp_ok
       THEN Return(t, 0 - ENOMEM, <<>>, "tempdir_fail")
       ELSE Goto(t, "op_wrlock", "miss")
    /\ UNCHANGED <<call, rev, lock, cache, files, inserted, calls, spIn, spOut>>

\* apr_hash_get: a hit returns 0 at once; on a miss apr_temp_dir_get names the
\* directory of the spool file, or fails.
OpenLookup(t, found, tmp_ok) ==
    /\ pc[t] = "op_lookup"
    /\ found \in LookupResults(t, call[t].path)
    /\ cache_path' = [cache_path EXCEPT ![t] = found]
    /\ IF found # NoFile
       THEN Return(t, 0, <<>>, "hit")
       ELSE IF ~tmp_ok
       THEN Return(t, 0 - ENOMEM, <<>>, "tempdir_fail")
       ELSE Goto(t, "op_wrlock", "miss")
    /\ UNCHANGED <<call, rev, lock, cache, files, inserted, calls, spIn, spOut>>

\* SVNFS_LOCK_WRITE granted.
OpenLockWrite(t) ==
    /\ pc[t] = "op_wrlock"
    /\ CanLockWrite
    /\ lock' = [lock EXCEPT !.writer = t]
    /\ Goto(t, "op_mktemp", "miss")
    /\ UNCHANGED <<call, rev, cache_path, cache, files, inserted, calls, spIn, spOut>>

\* The mutant of OpenLockFail that does not look at what
\* apr_thread_rwlock_wrlock returned.
OpenLockFail_ignored(t) ==
    /\ pc[t] = "op_wrlock"
    /\ Goto(t, "op_mktemp", "miss")
    /\ UNCHANGED <<call, rev, cache_path, lock, cache, files, inserted, calls, spIn, spOut>>

\* SVNFS_LOCK_WRITE: apr_thread_rwlock_wrlock reports an error.
OpenLockFail(t) ==
    /\ pc[t] = "op_wrlock"
    /\ Return(t, 0 - EBUSY, <<>>, "lock_fail")
    /\ UNCHANGED <<call, rev, cache_path, lock, cache, files, inserted, calls, spIn, spOut>>

\* apr_file_mktemp: a new, empty spool file open for writing, and then the
\* call of svn_ra_get_file; or no file, unlock and ENOMEM.
OpenMktemp(t, ok) ==
    /\ pc[t] = "op_mktemp"
    /\ IF ok
       THEN /\ files' = Append(files, NewFile(call[t].path))
            /\ cache_path' = [cache_path EXCEPT ![t] = Len(files) + 1]
            /\ Goto(t, "op_get_file", "miss")
            /\ UNCHANGED lock
       ELSE /\ lock' = Unlocked(t)
            /\ Return(t, 0 - ENOMEM, <<>>, "mktemp_fail")
            /\ UNCHANGED <<files, cache_path>>
    /\ UNCHANGED <<call, rev, cache, inserted, calls, spIn, spOut>>

\* svn_ra_get_file streams the next byte of the file into the spool file.
OpenFetchWrite(t) ==
    /\ pc[t] = "op_get_file"
    /\ LET f == cache_path[t]
           c == FileContent(Rev(t), ReposPath(t))
       IN  /\ Len(files[f].bytes) < Len(c)
           /\ files' = [files EXCEPT ![f].bytes = Append(@, c[Len(@) + 1])]
    /\ UNCHANGED <<pc, call, ret, out, note, rev, cache_path, lock, cache, inserted,
                   calls, spIn, spOut>>

\* The mutant of OpenFetchReturn that tries again, with a new spool file, when
\* svn_ra_get_file failed.
OpenFetchReturn_retry(t, ok) ==
    /\ pc[t] = "op_get_file"
    /\ ok => /\ NodeKind(Rev(t), ReposPath(t)) = "file"
             /\ files[cache_path[t]].bytes = FileContent(Rev(t), ReposPath(t))
    /\ Goto(t, IF ok THEN "op_stream_close" ELSE "op_mktemp", "miss")
    /\ UNCHANGED <<call, rev, cache_path, lock, cache, files, inserted, calls, spIn, spOut>>

\* The mutant of OpenFetchReturn that does not look at the error of
\* svn_ra_get_file.
OpenFetchReturn_ignoreerr(t, ok) ==
    /\ pc[t] = "op_get_file"
    /\ ok => /\ NodeKind(Rev(t), ReposPath(t)) = "file"
             /\ files[cache_path[t]].bytes = FileContent(Rev(t), ReposPath(t))
    /\ Goto(t, "op_stream_close", "miss")
    /\ UNCHANGED <<call, rev, cache_path, lock, cache, files, inserted, calls, spIn, spOut>>

\* svn_ra_get_file returns: with no error once the whole file is written, or
\* with an error (no such file, or the transport failed part way), which ends
\* open with unlock and ENOENT.
OpenFetchReturn(t, ok) ==
    /\ pc[t] = "op_get_file"
    /\ IF ok
       THEN /\ NodeKind(Rev(t), ReposPath(t)) = "file"
            /\ files[cache_path[t]].bytes = FileContent(Rev(t), ReposPath(t))
            /\ Goto(t, "op_stream_close", "miss")
            /\ UNCHANGED lock
       ELSE /\ lock' = Unlocked(t)
            /\ Return(t, 0 - ENOENT, <<>>, "fetch_err")
    /\ UNCHANGED <<call, rev, cache_path, cache, files, inserted, calls, spIn, spOut>>

\* The mutant of OpenStreamClose that has apr_hash_set before the close.
OpenStreamClose_publishfirst(t, ok) ==
    /\ pc[t] = "op_stream_close"
    /\ cache' = [cache EXCEPT ![call[t].path] = cache_path[t]]
    /\ inserted' = [inserted EXCEPT ![t] = TRUE]
    /\ IF ok
       THEN /\ Goto(t, "op_file_close", "miss")
            /\ UNCHANGED lock
       ELSE /\ lock' = Unlocked(t)
            /\ Return(t, 0 - EIO, <<>>, "stream_close_fail")
    /\ UNCHANGED <<call, rev, cache_path, files, calls, spIn, spOut>>

\* svn_stream_close.
OpenStreamClose(t, ok) ==
    /\ pc[t] = "op_stream_close"
    /\ IF ok
       THEN /\ Goto(t, "op_file_close", "miss")
            /\ UNCHANGED lock
       ELSE /\ lock' = Unlocked(t)
            /\ Return(t, 0 - EIO, <<>>, "stream_close_fail")
    /\ UNCHANGED <<call, rev, cache_path, cache, files, inserted, calls, spIn, spOut>>

\* apr_file_close; when it succeeds apr_hash_set is entered.
OpenFileClose(t, ok) ==
    /\ pc[t] = "op_file_close"
    /\ IF ok
       THEN /\ files' = [files EXCEPT ![cache_path[t]].closed = TRUE]
            /\ Goto(t, "op_hash_set", "miss")
            /\ UNCHANGED lock
       ELSE /\ lock' = Unlocked(t)
            /\ Return(t, 0 - EIO, <<>>, "file_close_fail")
            /\ UNCHANGED files
    /\ UNCHANGED <<call, rev, cache_path, cache, inserted, calls, spIn, spOut>>

\* apr_hash_set completes: the path maps to this call's spool file.
OpenHashSet(t) ==
    /\ pc[t] = "op_hash_set"
    /\ cache' = [cache EXCEPT ![call[t].path] = cache_path[t]]
    /\ inserted' = [inserted EXCEPT ![t] = TRUE]
    /\ Goto(t, "op_unlock", "miss")
    /\ UNCHANGED <<call, rev, cache_path, lock, files, calls, spIn, spOut>>

\* The final SVNFS_UNLOCK and return 0.
OpenUnlock(t) ==
    /\ pc[t] = "op_unlock"
    /\ lock' = Unlocked(t)
    /\ Return(t, 0, <<>>, "filled")
    /\ UNCHANGED <<call, rev, cache_path, cache, files, inserted, calls, spIn, spOut>>

\* ------------------------------------------------------------------------
\* svnfs_fuse_read
\* ------------------------------------------------------------------------
BeginRead(t, p, len, off) ==
    /\ Dispatch(t, "read", p, len, off)
    /\ Enter(t, "rd_lookup")
    /\ UNCHANGED <<lock, cache, files, spIn, spOut>>

\* The mutant of ReadLookup that takes the shared mode for the lookup.
ReadLookup_locked(t, found) ==
    /\ pc[t] = "rd_lookup"
    /\ CanLockRead
    /\ lock' = [lock EXCEPT !.readers = @ \cup {t}]
    /\ found \in LookupResults(t, call[t].path)
    /\ cache_path' = [cache_path EXCEPT ![t] = found]
    /\ IF found = NoFile
       THEN Return(t, 0 - EIO, <<>>, "nocache")
       ELSE Goto(t, "rd_file", "none")
    /\ UNCHANGED <<call, rev, cache, files, inserted, calls, spIn, spOut>>

\* apr_hash_get: without an entry read fails with EIO.
ReadLookup(t, found) ==
    /\ pc[t] = "rd_lookup"
    /\ found \in LookupResults(t, call[t].path)
    /\ cache_path' = [cache_path EXCEPT ![t] = found]
    /\ IF found = NoFile
       THEN Return(t, 0 - EIO, <<>>, "nocache")
       ELSE Goto(t, "rd_file", "none")
    /\ UNCHANGED <<call, rev, lock, cache, files, inserted, calls, spIn, spOut>>

ReadOutcomes == {"ok", "open_fail", "seek_fail", "read_fail", "close_fail"}

\* apr_file_open, apr_file_seek, apr_file_read_full, apr_file_close on the
\* spool file: any of them failing is EIO, else the count of bytes read.
ReadFile(t, io) ==
    /\ pc[t] = "rd_file"
    /\ IF io = "ok"
       THEN LET b == ReadAt(files[cache_path[t]].bytes, call[t].off, call[t].len)
            IN  Return(t, Len(b), b, "ok")
       ELSE Return(t, 0 - EIO, <<>>, io)
    /\ UNCHANGED <<call, rev, cache_path, lock, cache, files, inserted, calls, spIn, spOut>>

\* ------------------------------------------------------------------------
\* svnfs_fuse_readdir
\* ------------------------------------------------------------------------
Digits == <<"0", "1", "2", "3", "4", "5", "6", "7", "8", "9">>

\* apr_itoa: the decimal digits of a positive number.
RECURSIVE apr_itoa(_)
apr_itoa(n) ==
    IF n < 10 THEN <<Digits[n + 1]>>
    ELSE apr_itoa(n \div 10) \o <<Digits[(n % 10) + 1]>>

\* The mutant of RevisionNames whose loop runs while rev >= 0.
RECURSIVE RevisionNames_withzero(_)
RevisionNames_withzero(n) ==
    IF n >= 0 THEN <<apr_itoa(n)>> \o RevisionNames_withzero(n - 1) ELSE <<>>

\* while(rev > 0) filler(apr_itoa(rev--)): the names n, n-1, .., 1.
RECURSIVE RevisionNames(_)
RevisionNames(n) ==
    IF n > 0 THEN <<apr_itoa(n)>> \o RevisionNames(n - 1) ELSE <<>>

DotEntries == << <<".">>, <<".", ".">> >>

\* The orders in which a walk of an apr_hash_t can yield the names.
Orderings(S) ==
    { q \in [1..Cardinality(S) -> S] : \A i, j \in DOMAIN q : q[i] = q[j] => i = j }

\* Entry: the root asks for the latest revision; another path is split, and
\* "." and ".." are filled in before the lock is taken.
BeginReaddir(t, p) ==
    /\ Dispatch(t, "readdir", p, 0, 0)
    /\ IF p = RootPath
       THEN Enter(t, "ls_rdlock_root")
       ELSE IF ~svnfs_path_split(p).ok
       THEN Return(t, 0 - ENOENT, <<>>, "malformed")
       ELSE /\ pc' = [pc EXCEPT ![t] = "ls_rdlock"]
            /\ ret' = [ret EXCEPT ![t] = 0]
            /\ out' = [out EXCEPT ![t] = DotEntries]
            /\ note' = [note EXCEPT ![t] = "none"]
    /\ UNCHANGED <<lock, cache, files, spIn, spOut>>

\* SVNFS_LOCK_READ granted: the backend call is made.
ReaddirLockRead(t) ==
    /\ pc[t] \in {"ls_rdlock_root", "ls_rdlock"}
    /\ CanLockRead
    /\ lock' = [lock EXCEPT !.readers = @ \cup {t}]
    /\ Goto(t, IF pc[t] = "ls_rdlock_root" THEN "ls_latest" ELSE "ls_get_dir", "none")
    /\ UNCHANGED <<call, rev, cache_path, cache, files, inserted, calls, spIn, spOut>>

\* SVNFS_LOCK_READ: apr_thread_rwlock_rdlock reports an error.
ReaddirLockFail(t) ==
    /\ pc[t] \in {"ls_rdlock_root", "ls_rdlock"}
    /\ Return(t, 0 - EBUSY, out[t], "lock_fail")
    /\ UNCHANGED <<call, rev, cache_path, lock, cache, files, inserted, calls, spIn, spOut>>

\* svn_ra_get_latest_revnum returns the youngest revision n, or an error.
ReaddirLatestReturn(t, ok, n) ==
    /\ pc[t] = "ls_latest"
    /\ rev' = [rev EXCEPT ![t] = IF ok THEN n ELSE @]
    /\ Goto(t, "ls_unlock_root", IF ok THEN "latest_ok" ELSE "latest_err")
    /\ UNCHANGED <<call, cache_path, lock, cache, files, inserted, calls, spIn, spOut>>

\* SVNFS_UNLOCK, the error check, then ".", ".." and the revisions downwards.
ReaddirFinishRoot(t) ==
    /\ pc[t] = "ls_unlock_root"
    /\ lock' = Unlocked(t)
    /\ IF note[t] = "latest_err"
       THEN Return(t, 0 - EPIPE, <<>>, "latest_err")
       ELSE Return(t, 0, DotEntries \o RevisionNames(rev[t]), "latest_ok")
    /\ UNCHANGED <<call, rev, cache_path, cache, files, inserted, calls, spIn, spOut>>

\* svn_ra_get_dir returns the entries, or an error (transport, or the path is
\* no directory of that revision).
ReaddirGetDirReturn(t, transport_ok) ==
    /\ pc[t] = "ls_get_dir"
    /\ Goto(t, "ls_unlock",
            IF transport_ok /\ NodeKind(Rev(t), ReposPath(t)) = "dir"
            THEN "dir_ok" ELSE "dir_err")
    /\ UNCHANGED <<call, rev, cache_path, lock, cache, files, inserted, calls, spIn, spOut>>

\* SVNFS_UNLOCK, the error check, then one filler call per entry of the hash.
ReaddirFinish(t, order) ==
    /\ pc[t] = "ls_unlock"
    /\ lock' = Unlocked(t)
    /\ IF note[t] = "dir_err"
       THEN Return(t, 0 - EPIPE, out[t], "dir_err")
       ELSE /\ order \in Orderings(DirNames(Rev(t), ReposPath(t)))
            /\ Return(t, 0, out[t] \o order, "dir_ok")
    /\ UNCHANGED <<call, rev, cache_path, cache, files, inserted, calls, spIn, spOut>>

\* ------------------------------------------------------------------------
\* The file system: worker threads serving requests
\* ------------------------------------------------------------------------
Bool == {TRUE, FALSE}

AllOrderings == UNION { Orderings(DirNames(r, RootPath)) : r \in 0..Youngest }

Next ==
    /\ ~Crashed
    /\ \E t \in Threads :
        \/ \E p \in VPaths : BeginGetattr(t, p)
        \/ GetattrLockRead(t)
        \/ GetattrLockFail(t)
        \/ \E ok \in Bool : GetattrStatReturn(t, ok)
        \/ \E u \in NullDirentOutcomes : GetattrFinish(t, u)
        \/ \E p \in VPaths : BeginOpen(t, p)
        \/ \E f \in 0..Len(files), ok \in Bool : OpenLookup(t, f, ok)
        \/ OpenLockWrite(t)
        \/ OpenLockFail(t)
        \/ \E ok \in Bool : OpenMktemp(t, ok)
        \/ OpenFetchWrite(t)
        \/ \E ok \in Bool : OpenFetchReturn(t, ok)
        \/ \E ok \in Bool : OpenStreamClose(t, ok)
        \/ \E ok \in Bool : OpenFileClose(t, ok)
        \/ OpenHashSet(t)
        \/ OpenUnlock(t)
        \/ \E p \in VPaths, len \in 0..MaxLen, off \in 0..MaxOff : BeginRead(t, p, len, off)
        \/ \E f \in 0..Len(files) : ReadLookup(t, f)
        \/ \E io \in ReadOutcomes : ReadFile(t, io)
        \/ \E p \in VPaths : BeginReaddir(t, p)
        \/ ReaddirLockRead(t)
        \/ ReaddirLockFail(t)
        \/ \E ok \in Bool, n \in 0..Youngest : ReaddirLatestReturn(t, ok, n)
        \/ ReaddirFinishRoot(t)
        \/ \E ok \in Bool : ReaddirGetDirReturn(t, ok)
        \/ \E order \in AllOrderings \cup {<<>>} : ReaddirFinish(t, order)

Spec == Init /\ [][Next]_vars

\* ------------------------------------------------------------------------
\* svnfs_path_split on its own, over every short string
\* ------------------------------------------------------------------------
PathChars == {"/", "0", "1", "2", "a", "-", "+", " "}

Strings == UNION { [1..k -> PathChars] : k \in 0..MaxPathLen }

SplitCall(p) ==
    /\ spIn' = p
    /\ spOut' = svnfs_path_split(p)
    /\ UNCHANGED <<pc, call, ret, out, note, rev, cache_path, lock, cache, files,
                   inserted, calls>>

NextSplit == \E p \in Strings : SplitCall(p)

SplitSpec == Init /\ [][NextSplit]_vars

\* ------------------------------------------------------------------------
\* Properties
\* ------------------------------------------------------------------------
Idle(t, name) == pc[t] = "idle" /\ call[t].name = name

LockFree == lock = [readers |-> {}, writer |-> NoThread]

\* The thread is inside the fetch-and-publish sequence of open.
InPopulate(t) ==
    pc[t] \in {"op_mktemp", "op_get_file", "op_stream_close", "op_file_close",
               "op_hash_set", "op_unlock"}

\* C1: the fetch-and-publish sequence of open runs alone: no second thread is
\* inside it, and no other thread has a backend call in flight meanwhile.
FetchPublishAlone ==
    \A t \in Threads : InPopulate(t) =>
        \A u \in Threads \ {t} : ~InPopulate(u) /\ ~InBackend(u)

\* A fetch is streaming while the other thread waits for the lock.
FetchPublishAloneWitness ==
    \E t \in Threads, u \in Threads :
        /\ t # u
        /\ pc[t] = "op_get_file"
        /\ files[cache_path[t]].bytes # <<>>
        /\ pc[u] \in {"ga_rdlock", "op_wrlock", "ls_rdlock", "ls_rdlock_root"}

\* C2: at most one call on the RA session is in flight, whatever the handlers
\* that run.
OneBackendCall == Cardinality({t \in Threads : InBackend(t)}) <= 1

\* The spool files made for a path, and those of them that hold the whole
\* file and are closed.
SpoolsOf(p) == {i \in DOMAIN files : files[i].key = p}

Complete(i) ==
    LET sp == svnfs_path_split(files[i].key) IN
    /\ sp.ok
    /\ NodeKind(sp.rev, sp.repos_path) = "file"
    /\ files[i].closed
    /\ files[i].bytes = FileContent(sp.rev, sp.repos_path)

\* C3: when every fetch for a path went well and all handlers have returned,
\* svn_ra_get_file was called at most once for the path (one spool file is made
\* per call).
FetchOnce ==
    \A p \in VPaths :
        ((\A t \in Threads : pc[t] = "idle") /\ (\A i \in SpoolsOf(p) : Complete(i)))
            => Cardinality(SpoolsOf(p)) <= 1

\* C4: every entry of the cache, and every location a lookup of open or read
\* got, is a closed spool file with exactly the bytes of the file at the
\* revision and path of its key.
PublishAtomicity ==
    /\ \A p \in VPaths : cache[p] # NoFile => files[cache[p]].key = p /\ Complete(cache[p])
    /\ \A t \in Threads :
          (pc[t] = "rd_file" \/ (Idle(t, "open") /\ note[t] = "hit")) =>
              files[cache_path[t]].key = call[t].path /\ Complete(cache_path[t])

\* A read got its location from an insert that is still under way.
PublishAtomicityWitness ==
    \E t \in Threads, u \in Threads :
        /\ pc[t] = "rd_file"
        /\ pc[u] = "op_hash_set"
        /\ cache[call[t].path] = NoFile
        /\ cache_path[t] = cache_path[u]

GrammarDigits == {"0", "1", "2"}

WellFormedAt(p, k) ==
    /\ k >= 2 /\ k <= Len(p)
    /\ p[1] = "/"
    /\ \A i \in 2..k : p[i] \in GrammarDigits
    /\ k = Len(p) \/ p[k + 1] = "/"

WellFormed(p) == \E k \in 2..Len(p) : WellFormedAt(p, k)

RECURSIVE Decimal(_)
Decimal(d) ==
    IF d = <<>> THEN 0
    ELSE 10 * Decimal(SubSeq(d, 1, Len(d) - 1))
         + (IF d[Len(d)] = "0" THEN 0 ELSE IF d[Len(d)] = "1" THEN 1 ELSE 2)

\* C7: split accepts every well-formed path, with the value of the digits as
\* the revision and the rest, or "/", as the repository path.
SplitAcceptsWellFormed ==
    \A k \in 2..Len(spIn) : WellFormedAt(spIn, k) =>
        spOut = [ok |-> TRUE,
                 rev |-> Decimal(SubSeq(spIn, 2, k)),
                 repos_path |-> IF k = Len(spIn) THEN <<"/">>
                                ELSE SubSeq(spIn, k + 1, Len(spIn))]

\* C8: split rejects every path outside the grammar, so it yields no negative
\* revision and no repository path that does not begin with "/".
SplitRejectsMalformed ==
    /\ ~WellFormed(spIn) => ~spOut.ok
    /\ spOut.ok => spOut.rev >= 0 /\ spOut.repos_path[1] = "/"

\* The bytes of c from offset off, at most len of them.
Slice(c, off, len) ==
    LET n == IF off >= Len(c) THEN 0 ELSE Min(len, Len(c) - off)
    IN  [i \in 1..n |-> c[off + i]]

ContentOf(p) == FileContent(svnfs_path_split(p).rev, svnfs_path_split(p).repos_path)

ReadResultExact ==
    \A t \in Threads : Idle(t, "read") =>
        IF note[t] = "ok"
        THEN /\ out[t] = Slice(ContentOf(call[t].path), call[t].off, call[t].len)
             /\ ret[t] = Len(out[t])
        ELSE /\ ret[t] = 0 - EIO
             /\ note[t] \in {"nocache", "open_fail", "seek_fail", "read_fail", "close_fail"}

\* (An open can hit on an entry whose apr_hash_set has not returned yet.)
OpenedIsCached ==
    \A t \in Threads : (Idle(t, "open") /\ ret[t] = 0) =>
        \/ cache[call[t].path] # NoFile
        \/ \E u \in Threads \ {t} : /\ pc[u] = "op_hash_set"
                                     /\ call[u].path = call[t].path
                                     /\ cache_path[u] = cache_path[t]

ReadFindsCached ==
    \A t \in Threads :
        (pc[t] = "rd_lookup" /\ cache[call[t].path] # NoFile /\ pc'[t] # "rd_lookup")
            => pc'[t] = "rd_file"

\* C9: after a successful open the path is cached (at the latest when the
\* insert that open saw has returned), a read of a cached path finds it, and a read that meets no local I/O failure returns exactly the
\* bytes of the file from offset to offset+len or the end, and their count
\* (0 at or past the end).
ReadReturnsContent ==
    /\ [](ReadResultExact /\ OpenedIsCached)
    /\ [][ReadFindsCached]_vars

\* A read from the middle of a file returned its last byte.
ReadReturnsContentWitness ==
    \E t \in Threads :
        /\ Idle(t, "read")
        /\ note[t] = "ok"
        /\ call[t].off = 1
        /\ out[t] = <<"i">>
        /\ ret[t] = 1

\* C10: getattr of a path that svn_ra_stat reports absent, without an error,
\* returns ENOENT and the process goes on.
AbsentIsNoSuchEntry ==
    \A t \in Threads :
        (call[t].name = "getattr" /\ note[t] = "absent" /\ pc[t] \in {"idle", "crash"})
            => pc[t] = "idle" /\ ret[t] = 0 - ENOENT

\* A backend call of the handler failed although the node it asked for is
\* there: the transport or the protocol failed.
TransportFailed(t) ==
    \/ note[t] \in {"stat_err", "latest_err"}
    \/ note[t] = "dir_err" /\ NodeKind(rev[t], ReposPath(t)) = "dir"
    \/ note[t] = "fetch_err" /\ NodeKind(rev[t], ReposPath(t)) = "file"

\* C11: a handler whose backend call failed with a transport or protocol
\* error returns the communication-failure code EPIPE.
BackendErrorIsEPIPE ==
    \A t \in Threads : (pc[t] = "idle" /\ TransportFailed(t)) => ret[t] = 0 - EPIPE

\* The number a decimal name stands for.
DecimalDigits == <<"0", "1", "2", "3", "4", "5", "6", "7", "8", "9">>

RECURSIVE NameValue(_)
NameValue(d) ==
    IF d = <<>> THEN 0
    ELSE 10 * NameValue(SubSeq(d, 1, Len(d) - 1))
         + (CHOOSE v \in 0..9 : DecimalDigits[v + 1] = d[Len(d)])

\* C12: a listing of the root with latest revision N and no backend error is
\* ".", "..", then N, N-1, .., 1 as decimal names; 0 is not listed.
RootListing ==
    \A t \in Threads :
        (Idle(t, "readdir") /\ call[t].path = RootPath /\ note[t] = "latest_ok") =>
            /\ ret[t] = 0
            /\ Len(out[t]) = rev[t] + 2
            /\ out[t][1] = <<".">>
            /\ out[t][2] = <<".", ".">>
            /\ \A i \in 1..rev[t] :
                  /\ out[t][2 + i] # <<>>
                  /\ out[t][2 + i][1] # "0"
                  /\ \A j \in DOMAIN out[t][2 + i] :
                        \E v \in 1..10 : DecimalDigits[v] = out[t][2 + i][j]
                  /\ NameValue(out[t][2 + i]) = rev[t] + 1 - i

\* The root was listed at the youngest revision, and at revision 0.
RootListingWitness ==
    /\ \E t \in Threads :
          /\ Idle(t, "readdir") /\ note[t] = "latest_ok"
          /\ rev[t] = Youngest /\ Len(out[t]) = Youngest + 2
    /\ \E t \in Threads :
          /\ Idle(t, "readdir") /\ note[t] = "latest_ok"
          /\ rev[t] = 0 /\ out[t] = DotEntries

\* C13: an open that finds its path in the cache returns 0 in that step, with
\* the lock, the cache and the spool files untouched and no backend call.
CacheHitTouchesNothing ==
    [][\A t \in Threads :
          (pc[t] = "op_lookup" /\ cache[call[t].path] # NoFile /\ pc'[t] # pc[t]) =>
              /\ pc'[t] = "idle"
              /\ ret'[t] = 0
              /\ lock' = lock
              /\ cache' = cache
              /\ files' = files]_vars

\* An open has hit on a cached path and nothing was fetched for it again.
CacheHitTouchesNothingWitness ==
    \E t \in Threads :
        /\ Idle(t, "open")
        /\ note[t] = "hit"
        /\ cache[call[t].path] = cache_path[t]
        /\ Cardinality(SpoolsOf(call[t].path)) = 1

\* The thread is about to ask for a mode of the lock.
AtLock(t) == pc[t] \in {"ga_rdlock", "op_wrlock", "ls_rdlock_root", "ls_rdlock"}

\* C14: a handler at the lock either is granted the mode and goes on, or
\* returns EBUSY at once: with no backend call, holding no mode, and with the
\* lock, the cache and the spool files as they were.
LockFailureIsBusy ==
    [][\A t \in Threads :
          (AtLock(t) /\ pc'[t] # pc[t]) =>
              \/ /\ ~(t \in lock.readers \/ lock.writer = t)
                 /\ t \in lock'.readers \/ lock'.writer = t
                 /\ pc'[t] \in {"ga_stat", "op_mktemp", "ls_latest", "ls_get_dir"}
              \/ /\ pc'[t] = "idle"
                 /\ note'[t] = "lock_fail"
                 /\ ret'[t] = 0 - EBUSY
                 /\ lock' = lock
                 /\ ~(t \in lock.readers \/ lock.writer = t)
                 /\ cache' = cache
                 /\ files' = files]_vars

\* The lock failed for an open and for a getattr; neither holds a mode.
LockFailureIsBusyWitness ==
    /\ \E t \in Threads : Idle(t, "open") /\ note[t] = "lock_fail" /\ ret[t] = 0 - EBUSY
    /\ \E t \in Threads : Idle(t, "getattr") /\ note[t] = "lock_fail" /\ ret[t] = 0 - EBUSY
    /\ LockFree

\* C15: once the cache maps a path to a spool file, it maps the path to that
\* spool file in every later state.
CacheEntriesPermanent ==
    [][\A p \in VPaths : cache[p] # NoFile => cache'[p] = cache[p]]_vars

\* C16: while a thread is inside apr_hash_set no other thread is inside it,
\* and no thread makes a lookup in the cache.
InsertExcludesLookup ==
    [][\A t \in Threads :
          /\ pc[t] = "op_hash_set" => \A u \in Threads \ {t} : pc[u] # "op_hash_set"
          /\ (pc[t] \in {"op_lookup", "rd_lookup"} /\ pc'[t] # pc[t]) =>
                \A u \in Threads \ {t} : pc[u] # "op_hash_set"]_vars

\* C17: no handler asks for the lock while it holds a mode of it, and as long
\* as a handler has not returned some handler can take a step (each handler's
\* steps are bounded, so with fair scheduling every handler returns).
HandlersTerminate ==
    /\ \A t \in Threads : AtLock(t) => ~Holds(t)
    /\ (\A t \in Threads : pc[t] = "idle") \/ ENABLED Next

ReadHoldsNothing ==
    \A t \in Threads : (call[t].name = "read" /\ pc[t] # "idle") => ~Holds(t) /\ ~InBackend(t)

ReadStepTouchesNothing ==
    \A t \in Threads :
        (call'[t].name = "read" /\ pc'[t] # pc[t]) =>
            /\ pc'[t] \in {"rd_lookup", "rd_file", "idle"}
            /\ lock' = lock
            /\ cache' = cache
            /\ files' = files

\* C18: no step of read takes or gives up the lock, calls the backend or
\* changes the cache or a spool file, whatever read returns.
ReadTouchesNothing ==
    /\ []ReadHoldsNothing
    /\ [][ReadStepTouchesNothing]_vars

\* A read has found its spool file while another thread is fetching under the
\* exclusive mode; nothing keeps the read from finishing.
ReadTouchesNothingWitness ==
    \E t \in Threads, u \in Threads :
        /\ pc[t] = "rd_file"
        /\ lock.writer = u
        /\ pc[u] = "op_get_file"
        /\ ENABLED ReadFile(t, "ok")

\* The order of the positions inside each handler.
Rank(p) ==
    CASE p = "idle" -> 0
      [] p \in {"ga_rdlock", "op_lookup", "rd_lookup", "ls_rdlock_root", "ls_rdlock"} -> 1
      [] p \in {"ga_stat", "op_wrlock", "rd_file", "ls_latest", "ls_get_dir"} -> 2
      [] p \in {"ga_unlock", "op_mktemp", "ls_unlock_root", "ls_unlock"} -> 3
      [] p = "op_get_file" -> 4
      [] p = "op_stream_close" -> 5
      [] p = "op_file_close" -> 6
      [] p = "op_hash_set" -> 7
      [] p = "op_unlock" -> 8
      [] OTHER -> 9

NoStepBack ==
    \A t \in Threads : (pc'[t] # pc[t] /\ pc[t] # "idle") =>
        /\ pc'[t] \in {"idle", "crash"} \/ Rank(pc'[t]) > Rank(pc[t])
        /\ ((t \in lock'.readers \/ lock'.writer = t) /\ ~Holds(t)) => AtLock(t)
        /\ (pc'[t] \in {"ga_stat", "op_get_file", "ls_latest", "ls_get_dir"})
              => pc[t] \in {"ga_rdlock", "op_mktemp", "ls_rdlock_root", "ls_rdlock"}

\* C19: a handler never goes back: it passes the one point where it takes the
\* lock and the one point where it calls the backend at most once, also after
\* a failure; so no more files are fetched than requests were dispatched.
NothingRetried ==
    /\ [](Len(files) <= calls)
    /\ [][NoStepBack]_vars

\* A fetch failed and open returned; the file was fetched again only by a
\* second open.
NothingRetriedWitness ==
    \E t \in Threads :
        /\ Idle(t, "open")
        /\ note[t] = "filled"
        /\ calls = 2
        /\ Cardinality(SpoolsOf(call[t].path)) = 2
        /\ \E i \in SpoolsOf(call[t].path) : ~files[i].closed

====
